---- MODULE Spec2Model ----
(***************************************************************************)
(* worktree-env-sync: generation of per-worktree env files from a shared   *)
(* template and per-worktree input files, and the writes that follow.      *)
(*                                                                         *)
(* Text is modelled as a sequence of lines KEY=raw, where raw is a         *)
(* sequence of tokens: a token is one character ("x", a backslash, a       *)
(* double quote, a single quote) or one whole reference "${NAME}".         *)
(* A parsed env (Record<string, string>) is a sequence of entries          *)
(* [key, value] with distinct keys, in insertion order.                    *)
(***************************************************************************)
EXTENDS Integers, Sequences, FiniteSets, TLC

VARIABLES
    config,           \* Context.config
    fileContentsMap,  \* Context.fileContentsMap: path -> content, for the paths read
    ambient,          \* the host process: process.env and the default locale
    pc,               \* position in syncEnvFilesFromContext
    results,          \* the array generateEnvFiles builds
    envFiles,         \* what generateEnvFiles returned
    envLinks,         \* what generateEnvLinks returned
    error,            \* the error thrown, NoError when none
    fs,               \* the files, directories and symlinks on disk
    stderr,           \* the warnings written by console.warn
    stdout,           \* the lines written by console.log
    envArg,           \* the argument of a serializeEnv call
    serialized,       \* the lines serializeEnv returned
    reparsed,         \* the serialized text parsed again by dotenvx.parse
    configFile,       \* what the config file holds
    exitCode,         \* the argument of process.exit, 0 while it was not called
    firstRun,         \* the disks that earlier runs on the same files left
    inputFilesArg     \* the argument of a validateInputFilesConsistency call

vars == <<config, fileContentsMap, ambient, pc, results, envFiles, envLinks, error, fs,
          stderr, stdout, envArg, serialized, reparsed, configFile, exitCode, firstRun,
          inputFilesArg>>

\* ------------------------------------------------------------------ bounds

\* most lines of a template file
MaxTemplateLines == 2
\* most lines of an input file
MaxInputLines == 1
\* most input files of a config
MaxInputFiles == 2
\* most files and symlinks already on disk where the run creates symlinks
MaxDiskNodes == 1
\* longest value, in tokens, of a mapping given to serializeEnv
MaxValueLen == 2

\* input files in one call of validateInputFilesConsistency
MaxBatchFiles == 3

\* ------------------------------------------------------------ vocabulary

BS == "\\"
DQ == "\""
SQ == "'"

\* variable names of the universe; "toString" is also a property every
\* plain object inherits from Object.prototype
Names == {"Z", "t", "toString"}

ObjectPrototypeKeys == {"toString"}

\* the text "${NAME}" for each name
RefToken == [n \in Names |-> IF n = "Z" THEN "${Z}" ELSE IF n = "t" THEN "${t}" ELSE "${toString}"]

RefTokens == {RefToken[n] : n \in Names}

IsRef(tok) == tok \in RefTokens

RefName(tok) == CHOOSE n \in Names : RefToken[n] = tok

\* UTF-16 code units of each name
CodeUnits ==
    "APP" :> <<65, 80, 80>> @@ "Z" :> <<90>> @@ "t" :> <<116>> @@
    "toString" :> <<116, 111, 83, 116, 114, 105, 110, 103>>

Locales == {"en", "et"}

\* ------------------------------------------------- Record<string, string>

Entry(k, v) == [key |-> k, value |-> v]

Keys(env) == {env[i].key : i \in 1..Len(env)}

DistinctKeys(e) == \A i, j \in 1..Len(e) : i # j => e[i].key # e[j].key

\* own property lookup
Get(env, k) == (CHOOSE i \in 1..Len(env) : env[i].key = k)

\* obj[k] = v
Put(env, k, v) ==
    IF k \in Keys(env)
    THEN [i \in 1..Len(env) |-> IF env[i].key = k THEN Entry(k, v) ELSE env[i]]
    ELSE Append(env, Entry(k, v))

\* k in obj: own properties and those inherited from Object.prototype
In(k, env) == k \in Keys(env) \/ k \in ObjectPrototypeKeys

\* what String.replace substitutes when obj[k] is the inherited function
\* Object.prototype.toString (called as a replacer, with no receiver)
InheritedValue == <<"[object Undefined]">>

\* obj[k]
Lookup(env, k) ==
    IF k \in Keys(env) THEN env[Get(env, k)].value
    ELSE IF k \in ObjectPrototypeKeys THEN InheritedValue
    ELSE <<>>

\* ---------------------------------------------------------- dotenvx.parse

\* the options argument of dotenvx.parse
NoOptions == [overload |-> FALSE]

WithProcessEnv(env) == [processEnv |-> env]

\* options.processEnv when given, else process.env of the host process
EffectiveProcessEnv(options, hostEnv) ==
    IF "processEnv" \in DOMAIN options THEN options.processEnv ELSE hostEnv

\* the quote character around a raw value, "" when unquoted
Quote(raw) ==
    IF Len(raw) >= 2 /\ raw[1] \in {DQ, SQ} /\ raw[Len(raw)] = raw[1] THEN raw[1] ELSE ""

\* the raw value without its surrounding quotes
Clean(raw) == IF Quote(raw) # "" THEN SubSeq(raw, 2, Len(raw) - 1) ELSE raw

\* ${NAME} replaced by the value of NAME (nothing when unset); a reference
\* after a backslash stays, and loses the backslash
RECURSIVE Expand(_, _)
Expand(v, env) ==
    IF v = <<>> THEN <<>>
    ELSE IF v[1] = BS /\ Len(v) >= 2 /\ IsRef(v[2])
         THEN <<v[2]>> \o Expand(SubSeq(v, 3, Len(v)), env)
    ELSE IF IsRef(v[1]) THEN Lookup(env, RefName(v[1])) \o Expand(Tail(v), env)
    ELSE <<v[1]>> \o Expand(Tail(v), env)

\* {...a, ...b}
RECURSIVE Spread(_, _)
Spread(a, b) == IF b = <<>> THEN a ELSE Spread(Put(a, b[1].key, b[1].value), Tail(b))

\* the value dotenvx gives one line: a value already set in processEnv wins;
\* otherwise the file value, expanded unless single-quoted, against the
\* keys parsed so far overlaid by processEnv
ParsedValue(line, parsed, processEnv) ==
    IF line.key \in Keys(processEnv) /\ Lookup(processEnv, line.key) # <<>>
    THEN Lookup(processEnv, line.key)
    ELSE IF Quote(line.raw) = SQ THEN Clean(line.raw)
    ELSE Expand(Clean(line.raw), Spread(parsed, processEnv))

RECURSIVE ParseLines(_, _, _)
ParseLines(lines, parsed, processEnv) ==
    IF lines = <<>> THEN parsed
    ELSE ParseLines(Tail(lines),
                    Put(parsed, lines[1].key, ParsedValue(lines[1], parsed, processEnv)),
                    processEnv)

DotenvxParse(src, options, hostEnv) ==
    ParseLines(src, <<>>, EffectiveProcessEnv(options, hostEnv))

\* ------------------------------------------------------------ serializeEnv

\* < on sequences of numbers, a proper prefix first: -1, 0 or 1
RECURSIVE CompareSeq(_, _)
CompareSeq(a, b) ==
    IF a = <<>> /\ b = <<>> THEN 0
    ELSE IF a = <<>> THEN -1
    ELSE IF b = <<>> THEN 1
    ELSE IF a[1] < b[1] THEN -1
    ELSE IF a[1] > b[1] THEN 1
    ELSE CompareSeq(Tail(a), Tail(b))

IsUpper(cu) == cu >= 65 /\ cu <= 90

\* place of a letter in the alphabet of the locale, doubled: Estonian sorts
\* z right after s, before t
PrimaryWeight(cu, locale) ==
    LET letter == (IF IsUpper(cu) THEN cu - 65 ELSE cu - 97) + 1
    IN  IF locale = "et" /\ letter = 26 THEN 2 * 19 + 1 ELSE 2 * letter

\* lower case sorts before upper case
TertiaryWeight(cu) == IF IsUpper(cu) THEN 1 ELSE 0

\* a.localeCompare(b) in the default locale of the host
LocaleCompare(a, b, locale) ==
    LET pa == [i \in 1..Len(CodeUnits[a]) |-> PrimaryWeight(CodeUnits[a][i], locale)]
        pb == [i \in 1..Len(CodeUnits[b]) |-> PrimaryWeight(CodeUnits[b][i], locale)]
        ta == [i \in 1..Len(CodeUnits[a]) |-> TertiaryWeight(CodeUnits[a][i])]
        tb == [i \in 1..Len(CodeUnits[b]) |-> TertiaryWeight(CodeUnits[b][i])]
    IN  IF CompareSeq(pa, pb) # 0 THEN CompareSeq(pa, pb) ELSE CompareSeq(ta, tb)

\* the comparator of the sort: ([a], [b]) => a.localeCompare(b)
EntryCompare(x, y, locale) == LocaleCompare(x.key, y.key, locale)

\* the entries left in insertion order
Unsorted(entries, locale) == entries

\* Array.prototype.sort: stable, by the comparator
RECURSIVE Insert(_, _, _)
Insert(sorted, x, locale) ==
    IF sorted = <<>> THEN <<x>>
    ELSE IF EntryCompare(x, sorted[Len(sorted)], locale) >= 0 THEN Append(sorted, x)
    ELSE Append(Insert(SubSeq(sorted, 1, Len(sorted) - 1), x, locale), sorted[Len(sorted)])

RECURSIVE Sort(_, _)
Sort(entries, locale) ==
    IF entries = <<>> THEN <<>>
    ELSE Insert(Sort(SubSeq(entries, 1, Len(entries) - 1), locale), entries[Len(entries)], locale)

\* value.replace(/\\/g, "\\\\")
RECURSIVE EscapeBackslashes(_)
EscapeBackslashes(v) ==
    IF v = <<>> THEN <<>>
    ELSE (IF v[1] = BS THEN <<BS, BS>> ELSE <<v[1]>>) \o EscapeBackslashes(Tail(v))

\* value.replace(/"/g, '\\"')
RECURSIVE EscapeQuotes(_)
EscapeQuotes(v) ==
    IF v = <<>> THEN <<>>
    ELSE (IF v[1] = DQ THEN <<BS, DQ>> ELSE <<v[1]>>) \o EscapeQuotes(Tail(v))

\* the two replacements in the other order
EscapeQuotesFirst(v) == EscapeBackslashes(EscapeQuotes(v))

Escape(v) == EscapeQuotes(EscapeBackslashes(v))

\* the line without its closing quote
SerializeLineUnclosed(e) == [key |-> e.key, raw |-> <<DQ>> \o Escape(e.value)]

\* the line KEY="escaped"
SerializeLine(e) == [key |-> e.key, raw |-> <<DQ>> \o Escape(e.value) \o <<DQ>>]

\* the lines of serializeEnv(env), joined by "\n"
SerializeEnv(env, locale) ==
    LET sorted == Sort(env, locale) IN [i \in 1..Len(sorted) |-> SerializeLine(sorted[i])]

\* ---------------------------------------------------------------- paths

\* a path is its sequence of segments; normalising resolves ".."
RECURSIVE NormalizeOnto(_, _)
NormalizeOnto(stack, rest) ==
    IF rest = <<>> THEN stack
    ELSE IF rest[1] = ".." /\ stack # <<>> /\ stack[Len(stack)] # ".."
         THEN NormalizeOnto(SubSeq(stack, 1, Len(stack) - 1), Tail(rest))
    ELSE NormalizeOnto(Append(stack, rest[1]), Tail(rest))

\* path.join(a, b)
Join(a, b) == NormalizeOnto(<<>>, a \o b)

\* path.dirname(p)
Dirname(p) == SubSeq(p, 1, Len(p) - 1)

RECURSIVE CommonPrefixLen(_, _)
CommonPrefixLen(a, b) ==
    IF a = <<>> \/ b = <<>> \/ a[1] # b[1] THEN 0 ELSE 1 + CommonPrefixLen(Tail(a), Tail(b))

\* the path from the base directory instead of from the given one
RelativeToBase(from, to) ==
    LET n == CommonPrefixLen(<<"main">>, to)
    IN  [i \in 1..(1 - n) |-> ".."] \o SubSeq(to, n + 1, Len(to))

\* path.relative(from, to)
Relative(from, to) ==
    LET n == CommonPrefixLen(from, to)
    IN  [i \in 1..(Len(from) - n) |-> ".."] \o SubSeq(to, n + 1, Len(to))

\* ------------------------------------------------------- validateEnvInputs

NoError == [message |-> "", subject |-> "", keys |-> <<>>]

Error(m, subject, keys) == [message |-> m, subject |-> subject, keys |-> keys]

\* the names of the ${NAME} tokens of a text, in order of appearance
RECURSIVE RefsOfRaw(_)
RefsOfRaw(raw) ==
    IF raw = <<>> THEN <<>>
    ELSE (IF IsRef(raw[1]) THEN <<RefName(raw[1])>> ELSE <<>>) \o RefsOfRaw(Tail(raw))

RECURSIVE VarRefs(_)
VarRefs(content) ==
    IF content = <<>> THEN <<>> ELSE RefsOfRaw(content[1].raw) \o VarRefs(Tail(content))

\* new RegExp(`\\$\\{${key}\\}`).test(templateContent)
RefPatternTest(key, templateContent) ==
    \E i \in 1..Len(VarRefs(templateContent)) : VarRefs(templateContent)[i] = key

\* array.filter(keep), keep a set
RECURSIVE Filter(_, _)
Filter(q, keep) ==
    IF q = <<>> THEN <<>>
    ELSE (IF q[1] \in keep THEN <<q[1]>> ELSE <<>>) \o Filter(Tail(q), keep)

\* Object.keys(env)
ObjectKeys(env) == [i \in 1..Len(env) |-> env[i].key]

\* the input keys the template also has, without referencing them via ${KEY}
Conflicts(templateVars, inputVars, templateContent) ==
    Filter(ObjectKeys(inputVars),
           {k \in Keys(inputVars) : In(k, templateVars) /\ ~RefPatternTest(k, templateContent)})

\* the error validateNoConflicts throws, NoError when it returns
ValidateNoConflicts(templateVars, inputVars, inputFile, templateContent) ==
    LET conflicts == Conflicts(templateVars, inputVars, templateContent)
    IN  IF Len(conflicts) > 0
        THEN Error("Template has literal values for keys also in input file", inputFile, conflicts)
        ELSE NoError

\* the error of the first input file that fails, in Map order
RECURSIVE ValidateEnvInputs(_, _, _)
ValidateEnvInputs(templateVars, inputFiles, templateContent) ==
    IF inputFiles = <<>> THEN NoError
    ELSE LET e == ValidateNoConflicts(templateVars, inputFiles[1].vars, inputFiles[1].file,
                                      templateContent)
         IN  IF e # NoError THEN e
             ELSE ValidateEnvInputs(templateVars, Tail(inputFiles), templateContent)

\* -------------------------------------------- validateInputFilesConsistency

InconsistentKeys == "Input files have inconsistent keys"

\* [...firstKeys].filter((k) => !keys.has(k))
MissingKeys(firstVars, fileVars) ==
    Filter(ObjectKeys(firstVars), Keys(firstVars) \ Keys(fileVars))

\* a comparison that finds no extra key
NoExtraKeys(firstVars, fileVars) == <<>>

\* [...keys].filter((k) => !firstKeys.has(k))
ExtraKeys(firstVars, fileVars) ==
    Filter(ObjectKeys(fileVars), Keys(fileVars) \ Keys(firstVars))

\* the lines console.log writes for a file that differs from the first
InconsistencyLog(file, firstFile, missingKeys, extraKeys) ==
    <<<<"Input file inconsistency detected:">>, <<"  Comparing", file, "to", firstFile>>>>
        \o (IF Len(missingKeys) > 0 THEN <<<<"  Missing keys:", missingKeys>>>> ELSE <<>>)
        \o (IF Len(extraKeys) > 0 THEN <<<<"  Extra keys:", extraKeys>>>> ELSE <<>>)

\* the loop over entries.slice(1): [error, stdout]
RECURSIVE ConsistencyLoop(_, _)
ConsistencyLoop(first, rest) ==
    IF rest = <<>> THEN [error |-> NoError, stdout |-> <<>>]
    ELSE LET missingKeys == MissingKeys(first.vars, rest[1].vars)
             extraKeys == ExtraKeys(first.vars, rest[1].vars)
         IN  IF Len(missingKeys) > 0 \/ Len(extraKeys) > 0
             THEN [error |-> Error(InconsistentKeys, rest[1].file, missingKeys \o extraKeys),
                   stdout |-> InconsistencyLog(rest[1].file, first.file, missingKeys,
                                               extraKeys)]
             ELSE ConsistencyLoop(first, Tail(rest))

\* validateInputFilesConsistency(inputFiles): [error, stdout]
ValidateInputFilesConsistency(inputFiles) ==
    IF Len(inputFiles) < 2 THEN [error |-> NoError, stdout |-> <<>>]
    ELSE ConsistencyLoop(inputFiles[1], Tail(inputFiles))

\* -------------------------------------------------------- processTemplate

\* the first ${NAME} of the template that is not `in` inputVars, as a
\* sequence of at most one name
RECURSIVE FirstMissing(_, _)
FirstMissing(refs, inputVars) ==
    IF refs = <<>> THEN <<>>
    ELSE IF ~In(refs[1], inputVars) THEN <<refs[1]>>
    ELSE FirstMissing(Tail(refs), inputVars)

UnusedVars(templateContent, inputVars) ==
    Filter(ObjectKeys(inputVars),
           {k \in Keys(inputVars) : ~RefPatternTest(k, templateContent)})

\* the interpolation without the check of the references
ProcessTemplateUnchecked(templateContent, inputVars, hostEnv) ==
    [error |-> NoError,
     warning |-> UnusedVars(templateContent, inputVars),
     vars |-> DotenvxParse(templateContent, WithProcessEnv(inputVars), hostEnv)]

\* unused input variables thrown as an error instead of warned about
ProcessTemplateStrict(templateContent, inputVars, hostEnv) ==
    LET missing == FirstMissing(VarRefs(templateContent), inputVars)
        unused == UnusedVars(templateContent, inputVars)
    IN  IF missing # <<>>
        THEN [error |-> Error("Template references missing variable", missing[1], <<>>),
              warning |-> <<>>, vars |-> <<>>]
        ELSE IF unused # <<>>
        THEN [error |-> Error("Input variables not used in template", "", unused),
              warning |-> <<>>, vars |-> <<>>]
        ELSE [error |-> NoError, warning |-> <<>>,
              vars |-> DotenvxParse(templateContent, WithProcessEnv(inputVars), hostEnv)]

\* [error, warning, vars]: the error thrown or the interpolated template
ProcessTemplate(templateContent, inputVars, hostEnv) ==
    LET missing == FirstMissing(VarRefs(templateContent), inputVars)
    IN  IF missing # <<>>
        THEN [error |-> Error("Template references missing variable", missing[1], <<>>),
              warning |-> <<>>, vars |-> <<>>]
        ELSE [error |-> NoError,
              warning |-> UnusedVars(templateContent, inputVars),
              vars |-> DotenvxParse(templateContent, WithProcessEnv(inputVars), hostEnv)]

\* ------------------------------------------------------- generateEnvFiles

NoEnv == <<>>

\* the property names that are canonical array indices, and their numbers
ArrayIndex == "1" :> 1 @@ "2" :> 2

IsArrayIndex(name) == name \in DOMAIN ArrayIndex

RECURSIVE InsertByIndex(_, _)
InsertByIndex(sorted, e) ==
    IF sorted = <<>> THEN <<e>>
    ELSE IF ArrayIndex[e.file] >= ArrayIndex[sorted[Len(sorted)].file] THEN Append(sorted, e)
    ELSE Append(InsertByIndex(SubSeq(sorted, 1, Len(sorted) - 1), e), sorted[Len(sorted)])

RECURSIVE SortByIndex(_)
SortByIndex(entries) ==
    IF entries = <<>> THEN <<>>
    ELSE InsertByIndex(SortByIndex(SubSeq(entries, 1, Len(entries) - 1)), entries[Len(entries)])

\* the members in the order the config file lists them
AsWritten(obj) == obj

\* Object.entries(obj), obj given by its members as the config file lists
\* them: the array-index names first, by ascending number, then the other
\* names in the order of the file
ObjectEntries(obj) ==
    LET members == {obj[i] : i \in 1..Len(obj)}
    IN  SortByIndex(Filter(obj, {m \in members : IsArrayIndex(m.file)}))
            \o Filter(obj, {m \in members : ~IsArrayIndex(m.file)})

\* !fileContentsMap.get(path): no entry, or the empty string
Falsy(fcm, path) == path \notin DOMAIN fcm \/ fcm[path] = <<>>

\* the loop that parses the input files: [error, inputFiles]
RECURSIVE ParseInputFiles(_, _, _, _)
ParseInputFiles(sourceFiles, fcm, hostEnv, inputFiles) ==
    IF sourceFiles = <<>> THEN [error |-> NoError, inputFiles |-> inputFiles]
    ELSE IF Falsy(fcm, sourceFiles[1])
         THEN [error |-> Error("Input file not found", sourceFiles[1], <<>>),
               inputFiles |-> inputFiles]
    ELSE ParseInputFiles(Tail(sourceFiles), fcm, hostEnv,
                         Append(inputFiles,
                                [file |-> sourceFiles[1],
                                 vars |-> DotenvxParse(fcm[sourceFiles[1]],
                                                       WithProcessEnv(NoEnv), hostEnv)]))

\* inputFiles.get(sourceFile)
InputVarsOf(inputFiles, sourceFile) ==
    inputFiles[CHOOSE i \in 1..Len(inputFiles) : inputFiles[i].file = sourceFile].vars

\* a line that is a comment, and the empty line
CommentLine(text) == [comment |-> text]

BlankLine == [comment |-> ""]

\* the loop building the content in two sections, the input variables
\* under a header and the template variables under another
RECURSIVE GenerateLoopSections(_, _, _, _, _, _)
GenerateLoopSections(entries, cfg, templateContent, inputFiles, amb, acc) ==
    IF entries = <<>> THEN acc
    ELSE LET inputVars == InputVarsOf(inputFiles, entries[1].file)
             destPath == Join(entries[1].folder, cfg.outputFile)
             processed == ProcessTemplate(templateContent, inputVars, amb.processEnv)
             content == <<CommentLine("# Input variables")>>
                            \o SerializeEnv(inputVars, amb.locale)
                            \o <<BlankLine, CommentLine("# Template variables")>>
                            \o SerializeEnv(processed.vars, amb.locale)
             warned == IF processed.warning # <<>> THEN Append(acc.warnings, processed.warning)
                       ELSE acc.warnings
         IN  IF processed.error # NoError
             THEN [error |-> processed.error, results |-> acc.results, warnings |-> acc.warnings]
             ELSE GenerateLoopSections(Tail(entries), cfg, templateContent, inputFiles, amb,
                                       [error |-> NoError,
                                        results |-> Append(acc.results,
                                                           [path |-> destPath,
                                                            content |-> content]),
                                        warnings |-> warned])

\* the loop over the target folders: [error, results, warnings], results
\* being the array as it stands when the loop ends or throws
RECURSIVE GenerateLoop(_, _, _, _, _, _)
GenerateLoop(entries, cfg, templateContent, inputFiles, amb, acc) ==
    IF entries = <<>> THEN acc
    ELSE LET inputVars == InputVarsOf(inputFiles, entries[1].file)
             destPath == Join(entries[1].folder, cfg.outputFile)
             processed == ProcessTemplate(templateContent, inputVars, amb.processEnv)
             content == SerializeEnv(processed.vars, amb.locale)
             warned == IF processed.warning # <<>> THEN Append(acc.warnings, processed.warning)
                       ELSE acc.warnings
         IN  IF processed.error # NoError
             THEN [error |-> processed.error, results |-> acc.results, warnings |-> acc.warnings]
             ELSE GenerateLoop(Tail(entries), cfg, templateContent, inputFiles, amb,
                               [error |-> NoError,
                                results |-> Append(acc.results,
                                                   [path |-> destPath, content |-> content]),
                                warnings |-> warned])

Thrown(e) == [error |-> e, results |-> <<>>, warnings |-> <<>>]

\* generateEnvFiles(config, fileContentsMap) in the host amb
GenerateEnvFiles(cfg, fcm, amb) ==
    IF Falsy(fcm, cfg.template)
    THEN Thrown(Error("Template file not found", cfg.template, <<>>))
    ELSE LET templateContent == fcm[cfg.template]
             templateVars == DotenvxParse(templateContent, WithProcessEnv(NoEnv), amb.processEnv)
             entries == ObjectEntries(cfg.inputFilesToFolders)
             sourceFiles == [i \in 1..Len(entries) |-> entries[i].file]
             read == ParseInputFiles(sourceFiles, fcm, amb.processEnv, <<>>)
             invalid == ValidateEnvInputs(templateVars, read.inputFiles, templateContent)
         IN  IF read.error # NoError THEN Thrown(read.error)
             ELSE IF invalid # NoError THEN Thrown(invalid)
             ELSE GenerateLoop(entries, cfg, templateContent, read.inputFiles,
                               amb, [error |-> NoError, results |-> <<>>, warnings |-> <<>>])

\* ------------------------------------------------------- generateEnvLinks

\* map.set(k, v)
MapSet(m, k, v) ==
    IF \E i \in 1..Len(m) : m[i].key = k
    THEN [i \in 1..Len(m) |-> IF m[i].key = k THEN Entry(k, v) ELSE m[i]]
    ELSE Append(m, Entry(k, v))

\* the symlink paths taken as they are, without the target folder
RECURSIVE LinksLoopUnprefixed(_, _, _)
LinksLoopUnprefixed(entries, cfg, result) ==
    IF entries = <<>> THEN result
    ELSE LinksLoopUnprefixed(Tail(entries), cfg,
                             MapSet(result, Join(entries[1].folder, cfg.outputFile),
                                    cfg.symlinksToOuputFile))

\* the plan keyed by the target folder instead of the env file in it
RECURSIVE LinksLoopByFolder(_, _, _)
LinksLoopByFolder(entries, cfg, result) ==
    IF entries = <<>> THEN result
    ELSE LET targetFolder == entries[1].folder
             linkPaths == [i \in 1..Len(cfg.symlinksToOuputFile) |->
                              Join(targetFolder, cfg.symlinksToOuputFile[i])]
         IN  LinksLoopByFolder(Tail(entries), cfg, MapSet(result, targetFolder, linkPaths))

RECURSIVE LinksLoop(_, _, _)
LinksLoop(entries, cfg, result) ==
    IF entries = <<>> THEN result
    ELSE LET targetFolder == entries[1].folder
             envFilePath == Join(targetFolder, cfg.outputFile)
             linkPaths == [i \in 1..Len(cfg.symlinksToOuputFile) |->
                              Join(targetFolder, cfg.symlinksToOuputFile[i])]
         IN  LinksLoop(Tail(entries), cfg, MapSet(result, envFilePath, linkPaths))

\* every env file given the link paths computed for the first folder
GenerateEnvLinksShared(cfg) ==
    LET plan == LinksLoop(ObjectEntries(cfg.inputFilesToFolders), cfg, <<>>)
    IN  [n \in 1..Len(plan) |-> Entry(plan[n].key, plan[1].value)]

GenerateEnvLinks(cfg) == LinksLoop(ObjectEntries(cfg.inputFilesToFolders), cfg, <<>>)

\* ------------------------------------------------------------ write-utils

EmptyFs == [dirs |-> {}, files |-> <<>>, links |-> <<>>]

\* no earlier run
NoRun == <<>>

\* the config handed over by the caller, no config file read
NotRead == [kind |-> "supplied"]

SetAt(m, k, v) == [x \in DOMAIN m \cup {k} |-> IF x = k THEN v ELSE m[x]]

RemoveAt(m, k) == [x \in DOMAIN m \ {k} |-> m[x]]

\* mkdirSync(dir, { recursive: true })
MkdirRecursive(f, dir) == [f EXCEPT !.dirs = @ \cup {SubSeq(dir, 1, n) : n \in 1..Len(dir)}]

\* the path that stands for a symlink chain the kernel gives up on (ELOOP)
NoPath == <<>>

\* where a path leads: through every symlink on the way, to the end
RECURSIVE Follow(_, _, _)
Follow(f, path, hops) ==
    IF path \notin DOMAIN f.links THEN path
    ELSE IF hops = 0 THEN NoPath
    ELSE Follow(f, Join(Dirname(path), f.links[path]), hops - 1)

Resolve(f, path) == Follow(f, path, Cardinality(DOMAIN f.links))

\* lstat succeeds: something, a dangling symlink included, is at the path
LExists(f, path) == path \in f.dirs \/ path \in DOMAIN f.files \/ path \in DOMAIN f.links

\* existsSync(path): follows a symlink to its target
ExistsSync(f, path) ==
    IF path \in DOMAIN f.links
    THEN Resolve(f, path) \in f.dirs \/ Resolve(f, path) \in DOMAIN f.files
    ELSE LExists(f, path)

\* writeFileSync(path, content): writes through a symlink, and fails on
\* a chain of symlinks that never ends: [fs, error]
WriteFileSync(f, path, content) ==
    IF Resolve(f, path) = NoPath
    THEN [fs |-> f, error |-> Error("ELOOP: too many symbolic links encountered", path, <<>>)]
    ELSE [fs |-> [f EXCEPT !.files = SetAt(@, Resolve(f, path), content)], error |-> NoError]

\* unlinkSync(path)
UnlinkSync(f, path) ==
    IF path \in DOMAIN f.links THEN [f EXCEPT !.links = RemoveAt(@, path)]
    ELSE [f EXCEPT !.files = RemoveAt(@, path)]

\* writeEnvFiles(base, envFiles): [fs, error]
RECURSIVE WriteEnvFiles(_, _, _)
WriteEnvFiles(f, base, files) ==
    IF files = <<>> THEN [fs |-> f, error |-> NoError]
    ELSE LET fullPath == Join(base, files[1].path)
             one == WriteFileSync(MkdirRecursive(f, Dirname(fullPath)), fullPath,
                                  files[1].content)
         IN  IF one.error # NoError THEN one ELSE WriteEnvFiles(one.fs, base, Tail(files))

\* one turn of the inner loop of writeSymlinks: [fs, error]
WriteSymlink(f, base, fullEnvPath, linkPath) ==
    LET fullLinkPath == Join(base, linkPath)
        made == MkdirRecursive(f, Dirname(fullLinkPath))
        cleared == IF ExistsSync(made, fullLinkPath) THEN UnlinkSync(made, fullLinkPath) ELSE made
        relativePath == Relative(Dirname(fullLinkPath), fullEnvPath)
    IN  IF LExists(cleared, fullLinkPath)
        THEN [fs |-> cleared, error |-> Error("EEXIST: file already exists", fullLinkPath, <<>>)]
        ELSE [fs |-> [cleared EXCEPT !.links = SetAt(@, fullLinkPath, relativePath)],
              error |-> NoError]

\* the pairs (envFilePath, linkPath) in the order the two loops visit them
RECURSIVE LinkPairs(_)
LinkPairs(links) ==
    IF links = <<>> THEN <<>>
    ELSE [i \in 1..Len(links[1].value) |-> <<links[1].key, links[1].value[i]>>]
         \o LinkPairs(Tail(links))

RECURSIVE WriteSymlinkPairs(_, _, _)
WriteSymlinkPairs(f, base, pairs) ==
    IF pairs = <<>> THEN [fs |-> f, error |-> NoError]
    ELSE LET one == WriteSymlink(f, base, Join(base, pairs[1][1]), pairs[1][2])
         IN  IF one.error # NoError THEN one ELSE WriteSymlinkPairs(one.fs, base, Tail(pairs))

WriteSymlinks(f, base, links) == WriteSymlinkPairs(f, base, LinkPairs(links))

\* -------------------------------------------------------------- universes

Min(a, b) == IF a < b THEN a ELSE b

\* the sequences over S of length at most n
RECURSIVE SeqsUpTo(_, _)
SeqsUpTo(S, n) ==
    IF n = 0 THEN {<<>>}
    ELSE LET shorter == SeqsUpTo(S, n - 1)
         IN  shorter \cup {Append(q, x) : q \in {r \in shorter : Len(r) = n - 1}, x \in S}

\* process.env of the host: empty, or holding a value for Z
HostEnvs == {NoEnv, <<Entry("Z", <<"s">>)>>}

Ambients == {[processEnv |-> h, locale |-> l] : h \in HostEnvs, l \in Locales}

\* ------------------------------------------------ syncEnvFilesFromContext

\* Context.base
Base == <<"main">>

TemplatePath == ".env.template"

InputFileNames == <<".env.worktree1", ".env.worktree2", ".env.worktree3">>

FolderPaths == <<<<"..", "wt1">>, <<"..", "wt2">>, <<"..", "wt3">>>>

OutputFile == <<".env.local">>

SymlinkLists == {<<>>, <<<<"apps", "web", ".env.local">>>>}

\* the configs: one target folder per input file, in the order of the file
Configs ==
    {[template |-> TemplatePath,
      inputFilesToFolders |-> [i \in 1..n |-> [file |-> InputFileNames[i], folder |-> FolderPaths[i]]],
      outputFile |-> OutputFile,
      symlinksToOuputFile |-> links] :
        n \in 1..Min(MaxInputFiles, Len(InputFileNames)), links \in SymlinkLists}

TemplateKeys == {"APP", "Z", "t"}

TemplateRaws == {<<"x">>} \cup {<<RefToken[n]>> : n \in Names}

TemplateContents ==
    SeqsUpTo({[key |-> k, raw |-> r] : k \in TemplateKeys, r \in TemplateRaws}, MaxTemplateLines)

InputKeys == {"Z", "t"}

InputRaws == {<<"x">>, <<"y">>}

InputContents ==
    SeqsUpTo({[key |-> k, raw |-> r] : k \in InputKeys, r \in InputRaws}, MaxInputLines)

\* Object.keys(config.inputFilesToFolders)
SourceFiles(cfg) ==
    LET entries == ObjectEntries(cfg.inputFilesToFolders)
    IN  [i \in 1..Len(entries) |-> entries[i].file]

NoFiles == <<>>

\* a map holding path with one of the contents, or not holding it
MapsOf(path, contents) == {NoFiles} \cup {path :> c : c \in contents}

RECURSIVE InputMaps(_)
InputMaps(sourceFiles) ==
    IF sourceFiles = <<>> THEN {NoFiles}
    ELSE {one @@ rest : one \in MapsOf(sourceFiles[1], InputContents),
                        rest \in InputMaps(Tail(sourceFiles))}

\* the file maps a caller can hand over for a config: any of its files may
\* be missing, and any may be empty
FileContentsMaps(cfg) ==
    {t @@ i : t \in MapsOf(cfg.template, TemplateContents), i \in InputMaps(SourceFiles(cfg))}

Init ==
    /\ config \in Configs
    /\ fileContentsMap \in FileContentsMaps(config)
    /\ ambient \in Ambients
    /\ pc = "start"
    /\ results = <<>>
    /\ envFiles = <<>>
    /\ envLinks = <<>>
    /\ error = NoError
    /\ fs = EmptyFs
    /\ stderr = <<>>
    /\ stdout = <<>>
    /\ configFile = NotRead
    /\ exitCode = 0
    /\ firstRun = NoRun
    /\ inputFilesArg = <<>>
    /\ envArg = <<>>
    /\ serialized = <<>>
    /\ reparsed = <<>>

\* each file written to disk as soon as it is generated
CallGenerateEnvFilesWriting ==
    /\ pc = "start"
    /\ LET out == GenerateEnvFiles(config, fileContentsMap, ambient)
       IN  /\ results' = out.results
           /\ error' = out.error
           /\ stderr' = stderr \o out.warnings
           /\ envFiles' = IF out.error = NoError THEN out.results ELSE envFiles
           /\ fs' = WriteEnvFiles(fs, Base, out.results).fs
           /\ pc' = IF out.error = NoError THEN "generated" ELSE "failed"
    /\ UNCHANGED <<inputFilesArg, configFile, exitCode, firstRun, stdout, config, fileContentsMap, ambient,
                   envLinks, envArg, serialized, reparsed>>

\* const envFiles = generateEnvFiles(config, fileContentsMap)
CallGenerateEnvFiles ==
    /\ pc = "start"
    /\ LET out == GenerateEnvFiles(config, fileContentsMap, ambient)
       IN  /\ results' = out.results
           /\ error' = out.error
           /\ stderr' = stderr \o out.warnings
           /\ envFiles' = IF out.error = NoError THEN out.results ELSE envFiles
           /\ pc' = IF out.error = NoError THEN "generated" ELSE "failed"
    /\ UNCHANGED <<inputFilesArg, configFile, exitCode, firstRun, stdout, config, fileContentsMap, ambient,
                   envLinks, fs, envArg, serialized, reparsed>>

\* the symlinks created on disk as soon as they are planned
CallGenerateEnvLinksLinking ==
    /\ pc = "generated"
    /\ envLinks' = GenerateEnvLinks(config)
    /\ fs' = WriteSymlinks(fs, Base, GenerateEnvLinks(config)).fs
    /\ pc' = "linked"
    /\ UNCHANGED <<inputFilesArg, configFile, exitCode, firstRun, stdout, config, fileContentsMap, ambient,
                   results, envFiles, error, stderr, envArg, serialized, reparsed>>

\* const envLinks = generateEnvLinks(config)
CallGenerateEnvLinks ==
    /\ pc = "generated"
    /\ envLinks' = GenerateEnvLinks(config)
    /\ pc' = "linked"
    /\ UNCHANGED <<inputFilesArg, configFile, exitCode, firstRun, stdout, config, fileContentsMap, ambient,
                   results, envFiles, error, fs, stderr, envArg, serialized, reparsed>>

\* writeEnvFiles(base, envFiles)
CallWriteEnvFiles ==
    /\ pc = "linked"
    /\ LET out == WriteEnvFiles(fs, Base, envFiles)
       IN  /\ fs' = out.fs
           /\ error' = out.error
           /\ pc' = IF out.error = NoError THEN "written" ELSE "failed"
    /\ UNCHANGED <<inputFilesArg, configFile, exitCode, firstRun, stdout, config, fileContentsMap, ambient,
                   results, envFiles, envLinks, stderr, envArg, serialized, reparsed>>

\* writeSymlinks(base, envLinks)
CallWriteSymlinks ==
    /\ pc = "written"
    /\ LET out == WriteSymlinks(fs, Base, envLinks)
       IN  /\ fs' = out.fs
           /\ error' = out.error
           /\ pc' = IF out.error = NoError THEN "done" ELSE "failed"
    /\ UNCHANGED <<inputFilesArg, configFile, exitCode, firstRun, stdout, config, fileContentsMap, ambient,
                   results, envFiles, envLinks, stderr, envArg, serialized, reparsed>>

Next ==
    \/ CallGenerateEnvFiles
    \/ CallGenerateEnvLinks
    \/ CallWriteEnvFiles
    \/ CallWriteSymlinks

Spec == Init /\ [][Next]_vars

\* --------------------------------------------- a run on a disk already in use

\* target folders: siblings of the base, one of them inside another
WriteFolders == {<<"..", "wt1">>, <<"..", "wt2">>, <<"..", "wt1", "apps">>}

\* symlink lists: paths under the target folder, one of them where a nested
\* folder has its env file, a path that leaves the target folder, and the
\* name of the output file itself
WriteSymlinkLists ==
    {<<>>,
     <<<<".env.local">>>>,
     <<<<"apps", "web", ".env.local">>>>,
     <<<<"apps", ".env.local">>>>,
     <<<<"apps", "web", ".env.local">>, <<"apps", ".env.local">>>>,
     <<<<"..", "wt2", ".env.local">>>>}

\* input file names as a config file can list them, one list with names that
\* are array indices
WriteFileNames == {InputFileNames, <<".env.worktree1", "2", "1">>, <<"2", "1", ".env.worktree1">>}

WriteConfigs ==
    {[template |-> TemplatePath,
      inputFilesToFolders |-> [i \in 1..n |-> [file |-> files[i], folder |-> folders[i]]],
      outputFile |-> OutputFile,
      symlinksToOuputFile |-> links] :
        n \in 1..Min(MaxInputFiles, Len(InputFileNames)),
        files \in WriteFileNames,
        folders \in [1..Len(InputFileNames) -> WriteFolders],
        links \in WriteSymlinkLists}

\* the value the i-th input file gives to Z
SampleValue(i) == IF i = 1 THEN <<"x">> ELSE IF i = 2 THEN <<"y">> ELSE <<"x", "y">>

\* files that pass every validation: the template APP=${Z}, each input Z=...
SampleFiles(cfg) ==
    LET files == SourceFiles(cfg)
    IN  [path \in {cfg.template} \cup {files[i] : i \in 1..Len(files)} |->
            IF path = cfg.template THEN <<[key |-> "APP", raw |-> <<RefToken["Z"]>>]>>
            ELSE <<[key |-> "Z", raw |-> SampleValue(CHOOSE i \in 1..Len(files) : files[i] = path)]>>]

\* the full paths at which writeSymlinks will create a symlink
Destinations(cfg) ==
    LET pairs == LinkPairs(GenerateEnvLinks(cfg))
    IN  {Join(Base, pairs[i][2]) : i \in 1..Len(pairs)}

\* a file left by something else, and what it holds
OldPath == <<"old">>

OldContent == <<[key |-> "OLD", raw |-> <<>>]>>

\* the disk with a regular file, or a symlink to OldPath, at each path of
\* nodes, and with OldPath itself there or not
DiskWith(nodes, kind, old) ==
    [dirs |-> UNION {{SubSeq(d, 1, n) : n \in 1..(Len(d) - 1)} : d \in nodes},
     files |-> [d \in {n \in nodes : kind[n] = "file"} \cup (IF old THEN {OldPath} ELSE {}) |->
                   OldContent],
     links |-> [d \in {n \in nodes : kind[n] = "link"} |-> Relative(Dirname(d), OldPath)]]

\* the disks a run can start on
Disks(cfg) ==
    {DiskWith(nodes, kind, old) :
        nodes \in {n \in SUBSET Destinations(cfg) : Cardinality(n) <= MaxDiskNodes},
        kind \in [Destinations(cfg) -> {"file", "link"}],
        old \in BOOLEAN}

\* the host of the runs on a used disk
DefaultAmbient == [processEnv |-> NoEnv, locale |-> "en"]

InitWrite ==
    /\ config \in WriteConfigs
    /\ fileContentsMap = SampleFiles(config)
    /\ fs \in Disks(config)
    /\ ambient = DefaultAmbient
    /\ pc = "start"
    /\ results = <<>>
    /\ envFiles = <<>>
    /\ envLinks = <<>>
    /\ error = NoError
    /\ stderr = <<>>
    /\ stdout = <<>>
    /\ configFile = NotRead
    /\ exitCode = 0
    /\ firstRun = NoRun
    /\ inputFilesArg = <<>>
    /\ envArg = <<>>
    /\ serialized = <<>>
    /\ reparsed = <<>>

SpecWrite == InitWrite /\ [][Next]_vars

\* ------------------------------------------------------------ a second run

\* syncEnvFilesFromContext called again, after a run that succeeded, with
\* the same context on the disk that run left
RunAgain ==
    /\ pc = "done"
    /\ firstRun = NoRun
    /\ inputFilesArg = <<>>
    /\ firstRun' = <<fs>>
    /\ pc' = "start"
    /\ results' = <<>>
    /\ envFiles' = <<>>
    /\ envLinks' = <<>>
    /\ UNCHANGED <<inputFilesArg, configFile, exitCode, stdout, config, fileContentsMap, ambient, error, fs,
                   stderr, envArg, serialized, reparsed>>

NextTwice ==
    \/ Next
    \/ RunAgain

SpecTwice == InitWrite /\ [][NextTwice]_vars

\* ----------------------------------------------- readConfig and readContext

\* no config read yet
NoConfig ==
    [template |-> "", inputFilesToFolders |-> <<>>, outputFile |-> <<>>,
     symlinksToOuputFile |-> <<>>]

\* JSON values: a string (a path, given by its segments), a number, an
\* array, an object with its members in the order of the text
JString(v) == [type |-> "string", value |-> v]

JNumber == [type |-> "number"]

JArray(items) == [type |-> "array", items |-> items]

JObject(members) == [type |-> "object", members |-> members]

Member(name, value) == [name |-> name, value |-> value]

\* what the config file holds: nothing (no such file), a text that is not
\* JSON, or the text of a JSON value
Missing == [kind |-> "missing"]

Unparsable == [kind |-> "text"]

Json(value) == [kind |-> "json", value |-> value]

\* one issue of a ZodError
Issue(path, message) == [path |-> path, message |-> message]

InvalidType == "Invalid input"

BadFolderPath == "Folder path must start with \"../\" to indicate a sibling directory"

\* path.startsWith("../"), the path given by its segments
StartsWithParent(path) == Len(path) >= 2 /\ path[1] = ".."

\* z.string() at a path of the value
StringIssues(value, path) ==
    IF value.type = "string" THEN <<>> ELSE <<Issue(path, InvalidType)>>

\* a folder taken for any string
AnyFolderIssues(value, path) == StringIssues(value, path)

\* folderPathSchema at a path of the value
FolderPathIssues(value, path) ==
    IF value.type # "string" THEN <<Issue(path, InvalidType)>>
    ELSE IF ~StartsWithParent(value.value) THEN <<Issue(path, BadFolderPath)>>
    ELSE <<>>

RECURSIVE Concat(_)
Concat(seqs) == IF seqs = <<>> THEN <<>> ELSE seqs[1] \o Concat(Tail(seqs))

HasMember(obj, name) == \E i \in 1..Len(obj.members) : obj.members[i].name = name

MemberOf(obj, name) ==
    obj.members[CHOOSE i \in 1..Len(obj.members) : obj.members[i].name = name].value

\* the issues of one field of the config object
FieldIssues(obj, name) ==
    IF ~HasMember(obj, name) THEN <<Issue(<<name>>, InvalidType)>>
    ELSE LET value == MemberOf(obj, name)
         IN  IF name \in {"template", "outputFile"} THEN StringIssues(value, <<name>>)
             ELSE IF name = "inputFilesToFolders"
             THEN IF value.type # "object" THEN <<Issue(<<name>>, InvalidType)>>
                  ELSE Concat([i \in 1..Len(value.members) |->
                                  FolderPathIssues(value.members[i].value,
                                                   <<name, value.members[i].name>>)])
             ELSE IF value.type # "array" THEN <<Issue(<<name>>, InvalidType)>>
                  ELSE Concat([i \in 1..Len(value.items) |->
                                  StringIssues(value.items[i], <<name, i - 1>>)])

ConfigFields == <<"template", "inputFilesToFolders", "outputFile", "symlinksToOuputFile">>

\* configSchema.safeParse(parsed): [success, data, issues]
SafeParse(parsed) ==
    LET issues == IF parsed.type # "object" THEN <<Issue(<<>>, InvalidType)>>
                  ELSE Concat([i \in 1..Len(ConfigFields) |->
                                  FieldIssues(parsed, ConfigFields[i])])
        folders == MemberOf(parsed, "inputFilesToFolders").members
        symlinks == MemberOf(parsed, "symlinksToOuputFile").items
    IN  IF issues # <<>> THEN [success |-> FALSE, data |-> NoConfig, issues |-> issues]
        ELSE [success |-> TRUE,
              data |-> [template |-> MemberOf(parsed, "template").value[1],
                        inputFilesToFolders |->
                            [i \in 1..Len(folders) |->
                                [file |-> folders[i].name, folder |-> folders[i].value.value]],
                        outputFile |-> MemberOf(parsed, "outputFile").value,
                        symlinksToOuputFile |->
                            [i \in 1..Len(symlinks) |-> symlinks[i].value]],
              issues |-> <<>>]

\* formatZodError(error): one line per issue, its path or "root", its message
FormatZodError(issues) ==
    [i \in 1..Len(issues) |->
        <<IF Len(issues[i].path) > 0 THEN issues[i].path ELSE "root", issues[i].message>>]

ConfigPath == <<"sync-env.json">>

NoSuchFile == "ENOENT: no such file or directory"

\* an invalid config file thrown as an error, the process not exited
ReadConfigThrowing(base, configPath, file) ==
    IF file = Missing
    THEN [error |-> Error("ENOENT: no such file or directory", Join(base, configPath), <<>>),
          exit |-> 0, stderr |-> <<>>, config |-> NoConfig]
    ELSE IF file = Unparsable \/ ~SafeParse(file.value).success
    THEN [error |-> Error("Invalid config file", Join(base, configPath), <<>>),
          exit |-> 0, stderr |-> <<>>, config |-> NoConfig]
    ELSE [error |-> NoError, exit |-> 0, stderr |-> <<>>, config |-> SafeParse(file.value).data]

\* readConfig(base, configPath): [error, exit, stderr, config], exit being
\* the argument of process.exit when it is called
ReadConfig(base, configPath, file) ==
    LET fullPath == Join(base, configPath)
        result == SafeParse(file.value)
    IN  IF file = Missing
        THEN [error |-> Error(NoSuchFile, fullPath, <<>>), exit |-> 0, stderr |-> <<>>,
              config |-> NoConfig]
        ELSE IF file = Unparsable
        THEN [error |-> NoError, exit |-> 1,
              stderr |-> <<<<"Error: Failed to parse config file as JSON.">>,
                           <<"Config file location:", fullPath>>,
                           <<"Config file contents:", file>>>>,
              config |-> NoConfig]
        ELSE IF ~result.success
        THEN [error |-> NoError, exit |-> 1,
              stderr |-> <<<<"Error: Invalid config file.">>,
                           <<"Config file location:", fullPath>>,
                           <<"Config file contents:", file.value>>,
                           <<"Validation errors:", FormatZodError(result.issues)>>>>,
              config |-> NoConfig]
        ELSE [error |-> NoError, exit |-> 0, stderr |-> <<>>, config |-> result.data]

\* readFileSync(path, "utf-8"): [error, content]
ReadFileSync(f, path) ==
    IF Resolve(f, path) \in DOMAIN f.files
    THEN [error |-> NoError, content |-> f.files[Resolve(f, path)]]
    ELSE [error |-> Error(NoSuchFile, path, <<>>), content |-> <<>>]

\* the loop of readContext over the paths to read: [error, fileContentsMap]
RECURSIVE ReadFiles(_, _, _, _)
ReadFiles(f, base, paths, fcm) ==
    IF paths = <<>> THEN [error |-> NoError, fileContentsMap |-> fcm]
    ELSE LET read == ReadFileSync(f, Join(base, <<paths[1]>>))
         IN  IF read.error # NoError THEN [error |-> read.error, fileContentsMap |-> fcm]
             ELSE ReadFiles(f, base, Tail(paths), (paths[1] :> read.content) @@ fcm)

\* folder values of a config file: sibling folders, a folder that is not
\* one, a number
FolderValues ==
    {JString(<<"..", "wt1">>), JString(<<"..", "wt2">>), JString(<<"wt1">>), JNumber}

\* the object inputFilesToFolders of a config file, with n members
FolderObjects(n) ==
    {JObject([i \in 1..n |-> Member(InputFileNames[i], values[i])]) :
        values \in [1..n -> FolderValues]}

\* the values a config file gives each field; NoMember when it has none
NoMember == [type |-> "undefined"]

FieldValues(name) ==
    IF name = "template" THEN {NoMember, JString(<<TemplatePath>>), JNumber}
    ELSE IF name = "outputFile" THEN {NoMember, JString(OutputFile)}
    ELSE IF name = "inputFilesToFolders"
    THEN {NoMember, JString(<<"..", "wt1">>)}
             \cup UNION {FolderObjects(n) : n \in 0..Min(MaxInputFiles, Len(InputFileNames))}
    ELSE {NoMember, JArray(<<>>), JArray(<<JString(<<"apps", "web", ".env.local">>)>>),
          JArray(<<JString(OutputFile)>>), JArray(<<JNumber>>)}

\* the members that are there
Present(name, value) == IF value = NoMember THEN <<>> ELSE <<Member(name, value)>>

\* the config files: none, one that is not JSON, a JSON number, and the
\* JSON objects with any of the fields missing, mistyped or right
ConfigFiles ==
    {Missing, Unparsable, Json(JNumber)}
        \cup {Json(JObject(Present("template", t) \o Present("inputFilesToFolders", i)
                               \o Present("outputFile", o)
                               \o Present("symlinksToOuputFile", l))) :
                  t \in FieldValues("template"), i \in FieldValues("inputFilesToFolders"),
                  o \in FieldValues("outputFile"), l \in FieldValues("symlinksToOuputFile")}

\* the template and input files of the sample, each on disk or not
SourceDisks ==
    LET all == SampleFiles([template |-> TemplatePath,
                            inputFilesToFolders |->
                                [i \in 1..Min(MaxInputFiles, Len(InputFileNames)) |->
                                    [file |-> InputFileNames[i], folder |-> FolderPaths[i]]]])
    IN  {[dirs |-> {Base},
          files |-> [path \in {Join(Base, <<name>>) : name \in present} |->
                        all[path[Len(path)]]],
          links |-> <<>>] : present \in SUBSET DOMAIN all}

InitRead ==
    /\ configFile \in ConfigFiles
    /\ fs \in SourceDisks
    /\ config = NoConfig
    /\ fileContentsMap = NoFiles
    /\ ambient = DefaultAmbient
    /\ pc = "boot"
    /\ results = <<>>
    /\ envFiles = <<>>
    /\ envLinks = <<>>
    /\ error = NoError
    /\ stderr = <<>>
    /\ stdout = <<>>
    /\ envArg = <<>>
    /\ serialized = <<>>
    /\ reparsed = <<>>
    /\ exitCode = 0
    /\ firstRun = NoRun
    /\ inputFilesArg = <<>>

\* const config = readConfig(base, configPath)
CallReadConfig ==
    /\ pc = "boot"
    /\ LET out == ReadConfig(Base, ConfigPath, configFile)
       IN  /\ config' = out.config
           /\ error' = out.error
           /\ stderr' = stderr \o out.stderr
           /\ exitCode' = out.exit
           /\ pc' = IF out.exit # 0 THEN "exited"
                    ELSE IF out.error # NoError THEN "failed" ELSE "config"
    /\ UNCHANGED <<inputFilesArg, configFile, firstRun, stdout, fileContentsMap, ambient, results, envFiles,
                   envLinks, fs, envArg, serialized, reparsed>>

\* the rest of readContext: the template read, then every input file
CallReadFiles ==
    /\ pc = "config"
    /\ LET out == ReadFiles(fs, Base, <<config.template>> \o SourceFiles(config), NoFiles)
       IN  /\ fileContentsMap' = IF out.error = NoError THEN out.fileContentsMap
                                 ELSE fileContentsMap
           /\ error' = out.error
           /\ pc' = IF out.error = NoError THEN "start" ELSE "failed"
    /\ UNCHANGED <<inputFilesArg, configFile, exitCode, firstRun, stdout, config, ambient, results, envFiles,
                   envLinks, fs, stderr, envArg, serialized, reparsed>>

\* syncWorktrees(base, configPath)
NextRead ==
    \/ CallReadConfig
    \/ CallReadFiles
    \/ Next

SpecRead == InitRead /\ [][NextRead]_vars

\* -------------------------------------------------- generateEnvFiles claims

TemplateNotFound == "Template file not found"

InputNotFound == "Input file not found"

ConflictingKeys == "Template has literal values for keys also in input file"

MissingVariable == "Template references missing variable"

GenerationErrors == {TemplateNotFound, InputNotFound, ConflictingKeys, MissingVariable}

\* generateEnvFiles has been called
Started == pc # "start"

Folders == 1..Len(config.inputFilesToFolders)

FilesPresent ==
    /\ ~Falsy(fileContentsMap, config.template)
    /\ \A i \in Folders : ~Falsy(fileContentsMap, SourceFiles(config)[i])

TemplateContent == fileContentsMap[config.template]

TemplateVars == DotenvxParse(TemplateContent, WithProcessEnv(NoEnv), ambient.processEnv)

InputVarsAt(i) ==
    DotenvxParse(fileContentsMap[SourceFiles(config)[i]], WithProcessEnv(NoEnv),
                 ambient.processEnv)

\* the input file of folder i fails a validation of generateEnvFiles
Rejected(i) ==
    \/ Conflicts(TemplateVars, InputVarsAt(i), TemplateContent) # <<>>
    \/ FirstMissing(VarRefs(TemplateContent), InputVarsAt(i)) # <<>>

AnyInvalid == ~FilesPresent \/ \E i \in Folders : Rejected(i)

C2_NoWriteOnFatalError ==
    error.message \in GenerationErrors => fs = EmptyFs /\ ~ENABLED Next

C2_Witness ==
    /\ pc = "failed"
    /\ error.message \in GenerationErrors
    /\ results # <<>>
    /\ fs = EmptyFs

\* C3: the call fails with "missing variable", returning no GeneratedFile,
\* when the template holds a ${NAME} whose NAME is not a key of some input
\* mapping (and no earlier check has failed); it never raises that error
\* when every ${NAME} is a key of every input mapping.
C3_MissingVariable ==
    (Started /\ FilesPresent /\ error.message # ConflictingKeys) =>
        LET refs == VarRefs(TemplateContent)
            unresolved == \E i \in Folders : \E n \in 1..Len(refs) :
                              refs[n] \notin Keys(InputVarsAt(i))
        IN  /\ unresolved => error.message = MissingVariable /\ envFiles = <<>>
            /\ ~unresolved => error.message # MissingVariable

\* the raw value of the last line of the template that assigns k
TemplateRawOf(k) ==
    LET last == CHOOSE n \in 1..Len(TemplateContent) :
                    /\ TemplateContent[n].key = k
                    /\ \A m \in (n + 1)..Len(TemplateContent) : TemplateContent[m].key # k
    IN  TemplateContent[last].raw

\* the keys of input i that the claim calls conflicting: assigned in the
\* template and not delegated there by a ${K} in K's own value
StatedConflicts(i) ==
    Filter(ObjectKeys(InputVarsAt(i)),
           {k \in Keys(InputVarsAt(i)) \cap Keys(TemplateVars) :
               \A n \in 1..Len(TemplateRawOf(k)) : TemplateRawOf(k)[n] # RefToken[k]})

\* C4: the conflict check fails exactly when some input file has a key the
\* template assigns without its value being a ${K} reference to that key;
\* the error names the first such file and lists its conflicting keys.
C4_ConflictCheck ==
    (Started /\ FilesPresent) =>
        LET offending == {i \in Folders : StatedConflicts(i) # <<>>}
            first == CHOOSE i \in offending : \A j \in offending : i <= j
        IN  /\ error.message = ConflictingKeys <=> offending # {}
            /\ error.message = ConflictingKeys =>
                  /\ error.subject = SourceFiles(config)[first]
                  /\ error.keys = StatedConflicts(first)

\* C5: with two or more input files, an input file whose key set differs
\* from the first one's makes the call throw "inconsistent keys" and return
\* nothing (stated for the inputs no other validation rejects); with fewer
\* than two input files that error is never thrown.
C5_InconsistentKeys ==
    (Started /\ FilesPresent) =>
        /\ ( /\ \E i \in Folders : Keys(InputVarsAt(i)) # Keys(InputVarsAt(1))
             /\ \A i \in Folders : ~Rejected(i) ) =>
              error.message = InconsistentKeys /\ envFiles = <<>>
        /\ Len(config.inputFilesToFolders) < 2 => error.message # InconsistentKeys

\* the orders in which the lines of a file with distinct keys can stand
Reorderings(content) ==
    IF DistinctKeys(content)
    THEN {[i \in 1..Len(content) |-> content[s[i]]] :
             s \in {t \in [1..Len(content) -> 1..Len(content)] :
                       \A i, j \in 1..Len(content) : i # j => t[i] # t[j]}}
    ELSE {content}

\* the file maps that give every file the same mapping in some other order
ReorderedMaps(fcm) ==
    {g \in [DOMAIN fcm -> UNION {Reorderings(fcm[f]) : f \in DOMAIN fcm}] :
        \A f \in DOMAIN fcm : g[f] \in Reorderings(fcm[f])}

\* what a caller sees of a call: whether it threw, and the files returned
Outcome(out) == [threw |-> out.error # NoError,
                 files |-> IF out.error = NoError THEN out.results ELSE <<>>]

C10_NoSystemLeakage ==
    Started =>
        \A a \in Ambients :
            Outcome(GenerateEnvFiles(config, fileContentsMap, a)) =
                [threw |-> error # NoError, files |-> envFiles]

\* --------------------------------------- generateEnvLinks and writer claims

\* generateEnvLinks has returned
LinksPlanned ==
    \/ pc \in {"linked", "written", "done"}
    \/ pc = "failed" /\ error.message \notin GenerationErrors

\* two spellings of one path
SamePath(a, b) == NormalizeOnto(<<>>, a) = NormalizeOnto(<<>>, b)

FolderOf(i) == config.inputFilesToFolders[i].folder

ValuesOf(e) == {e.value[j] : j \in 1..Len(e.value)}

Inside(a, b) == Len(a) < Len(b) /\ SubSeq(b, 1, Len(a)) = a

\* no target folder lies inside another, and no symlink path leaves its folder
Scoped(cfg) ==
    /\ \A i, k \in 1..Len(cfg.inputFilesToFolders) :
           ~Inside(cfg.inputFilesToFolders[i].folder, cfg.inputFilesToFolders[k].folder)
    /\ \A j \in 1..Len(cfg.symlinksToOuputFile) :
           \A n \in 1..Len(cfg.symlinksToOuputFile[j]) : cfg.symlinksToOuputFile[j][n] # ".."

\* Scoped, and no symlink path is the path of the output file itself
Apart(cfg) ==
    /\ Scoped(cfg)
    /\ \A j \in 1..Len(cfg.symlinksToOuputFile) :
           ~SamePath(cfg.symlinksToOuputFile[j], cfg.outputFile)

AlreadyExists == "EEXIST: file already exists"

\* the symlink at full path d leads to the generated file of entry e
LinkedTo(d, e) ==
    /\ d \in DOMAIN fs.links
    /\ Join(Dirname(d), fs.links[d]) = Join(Base, e.key)

\* C13: whatever is at a symlink destination (a regular file, a symlink that
\* resolves, a symlink whose target does not exist), writeSymlinks never
\* fails with "already exists", and once it has returned the destination is
\* a symlink to the generated file (stated for folders that share no
\* destination).
C13_Overwrite ==
    Apart(config) =>
        /\ error.message # AlreadyExists
        /\ pc = "done" =>
              \A n \in 1..Len(envLinks) :
                  \A d \in ValuesOf(envLinks[n]) : LinkedTo(Join(Base, d), envLinks[n])

\* what reading the file at full path d gives: <<>> when nothing is read
ReadThrough(d) ==
    IF Resolve(fs, d) \in DOMAIN fs.files THEN fs.files[Resolve(fs, d)] ELSE <<>>

\* the symlink of folder i at the configured path s is in place: its stored
\* target leads from the symlink's own directory to the env file generated
\* for that folder, and reading through it gives that file's content
InPlace(i, s) ==
    LET d == Join(Base, Join(FolderOf(i), s))
        envFilePath == Join(FolderOf(i), config.outputFile)
    IN  /\ d \in DOMAIN fs.links
        /\ Join(Dirname(d), fs.links[d]) = Join(Base, envFilePath)
        /\ \E k \in 1..Len(envFiles) :
               envFiles[k].path = envFilePath /\ ReadThrough(d) = envFiles[k].content

AllInPlace ==
    \A i \in Folders :
        \A j \in 1..Len(config.symlinksToOuputFile) : InPlace(i, config.symlinksToOuputFile[j])

SummaryLines ==
    {<<"Sync completed successfully!">>, <<"Template", config.template>>}
        \cup {<<SourceFiles(config)[i], "->", envFiles[i].path>> :
                  i \in 1..Min(Len(envFiles), Len(config.inputFilesToFolders))}
        \cup UNION {ValuesOf(envLinks[n]) : n \in 1..Len(envLinks)}

Printed == {stdout[n] : n \in 1..Len(stdout)}

\* C15: a run that completes successfully has written the summary to
\* standard output (the banner, the template path, a source -> destination
\* line per generated file, every created symlink path); a failed run has
\* written no summary.
C15_Summary ==
    /\ pc = "done" => SummaryLines \subseteq Printed
    /\ pc = "failed" => <<"Sync completed successfully!">> \notin Printed

\* ------------------------------------------- serializeEnv and parsing back

\* characters and references a value is made of
ValueTokens == {"x", BS, DQ, RefToken["Z"]}

SerializeKeys == {"Z", "t"}

\* the orders in which a mapping can hold some of the keys
KeyOrders == {ks \in SeqsUpTo(SerializeKeys, Cardinality(SerializeKeys)) :
                 \A i, j \in 1..Len(ks) : i # j => ks[i] # ks[j]}

\* the mappings serializeEnv is called with, in every insertion order
Envs ==
    UNION {{[i \in 1..Len(ks) |-> Entry(ks[i], vs[i])] :
               vs \in [1..Len(ks) -> SeqsUpTo(ValueTokens, MaxValueLen)]} : ks \in KeyOrders}

InitSerialize ==
    /\ envArg \in Envs
    /\ ambient \in Ambients
    /\ serialized = <<>>
    /\ reparsed = <<>>
    /\ pc = "serialize"
    /\ config = NoConfig
    /\ fileContentsMap = NoFiles
    /\ results = <<>>
    /\ envFiles = <<>>
    /\ envLinks = <<>>
    /\ error = NoError
    /\ fs = EmptyFs
    /\ stderr = <<>>
    /\ stdout = <<>>
    /\ configFile = NotRead
    /\ exitCode = 0
    /\ firstRun = NoRun
    /\ inputFilesArg = <<>>

\* const content = serializeEnv(processedTemplate)
CallSerializeEnv ==
    /\ pc = "serialize"
    /\ serialized' = SerializeEnv(envArg, ambient.locale)
    /\ pc' = "serialized"
    /\ UNCHANGED <<inputFilesArg, configFile, exitCode, firstRun, stdout, config, fileContentsMap, ambient,
                   results, envFiles, envLinks, error, fs, stderr, envArg, reparsed>>

\* dotenvx.parse(content, { processEnv: {} }) on the serialized text
ParseSerialized ==
    /\ pc = "serialized"
    /\ reparsed' = DotenvxParse(serialized, WithProcessEnv(NoEnv), ambient.processEnv)
    /\ pc' = "parsed"
    /\ UNCHANGED <<inputFilesArg, configFile, exitCode, firstRun, stdout, config, fileContentsMap, ambient,
                   results, envFiles, envLinks, error, fs, stderr, envArg, serialized>>

NextSerialize == CallSerializeEnv \/ ParseSerialized

SpecSerialize == InitSerialize /\ [][NextSerialize]_vars

\* ----------------------------------------------------- serializeEnv claims

Serialized == pc \in {"serialized", "parsed"}

CodeUnitCompare(a, b) == CompareSeq(CodeUnits[a], CodeUnits[b])

\* C6: serializeEnv emits one line per key, the lines in ascending order of
\* the keys' UTF-16 code units, whatever the insertion order and the locale.
C6_CodeUnitOrder ==
    Serialized =>
        /\ Len(serialized) = Len(envArg)
        /\ {serialized[i].key : i \in 1..Len(serialized)} = Keys(envArg)
        /\ \A i, j \in 1..Len(serialized) :
              i < j => CodeUnitCompare(serialized[i].key, serialized[j].key) < 0

\* reading an escaped text: a backslash makes the next character literal
RECURSIVE Unescape(_)
Unescape(v) ==
    IF v = <<>> THEN <<>>
    ELSE IF v[1] = BS /\ Len(v) >= 2 THEN <<v[2]>> \o Unescape(SubSeq(v, 3, Len(v)))
    ELSE <<v[1]>> \o Unescape(Tail(v))

Specials(v) == Cardinality({i \in 1..Len(v) : v[i] \in {BS, DQ}})

LineOf(k) == serialized[CHOOSE i \in 1..Len(serialized) : serialized[i].key = k]

Body(raw) == SubSeq(raw, 2, Len(raw) - 1)

\* C7: the text between the outer quotes of each line is the value with one
\* backslash added before every backslash and every double quote and nothing
\* else changed, so un-escaping it gives the value back.
C7_EscapeRoundTrip ==
    Serialized =>
        \A n \in 1..Len(envArg) :
            LET raw == LineOf(envArg[n].key).raw
            IN  /\ Len(raw) >= 2 /\ raw[1] = DQ /\ raw[Len(raw)] = DQ
                /\ Unescape(Body(raw)) = envArg[n].value
                /\ Len(Body(raw)) = Len(envArg[n].value) + Specials(envArg[n].value)

C7_Witness ==
    /\ Serialized
    /\ \E n \in 1..Len(envArg) : envArg[n].value = <<BS, DQ>>

Pairs(e) == {<<e[i].key, e[i].value>> : i \in 1..Len(e)}

NoBackslashNoQuote(e) == \A i \in 1..Len(e) : Specials(e[i].value) = 0

NoReference(e) == \A i \in 1..Len(e) : \A n \in 1..Len(e[i].value) : ~IsRef(e[i].value[n])

Generated == pc \in {"generated", "linked", "written", "done"}

\* the value folder i's input file gives NAME
InputValue(i, name) == InputVarsAt(i)[Get(InputVarsAt(i), name)].value

\* a template value with every ${NAME} replaced by folder i's input value
RECURSIVE Substituted(_, _)
Substituted(raw, i) ==
    IF raw = <<>> THEN <<>>
    ELSE IF IsRef(raw[1]) /\ RefName(raw[1]) \in Keys(InputVarsAt(i))
         THEN InputValue(i, RefName(raw[1])) \o Substituted(Tail(raw), i)
    ELSE <<raw[1]>> \o Substituted(Tail(raw), i)

OutputKeys(i) == {envFiles[i].content[n].key : n \in 1..Len(envFiles[i].content)}

\* the names a template value references
NamesIn(raw) == {RefName(raw[n]) : n \in {m \in 1..Len(raw) : IsRef(raw[m])}}

\* every line of folder i's content whose template value holds references
\* holds that value with each reference replaced by the value folder i's
\* input file gives the name
Interpolated(i) ==
    \A n \in 1..Len(envFiles[i].content) :
        LET line == envFiles[i].content[n]
        IN  NamesIn(TemplateRawOf(line.key)) # {} =>
                /\ NamesIn(TemplateRawOf(line.key)) \subseteq Keys(InputVarsAt(i))
                /\ Unescape(Body(line.raw)) = Substituted(TemplateRawOf(line.key), i)

\* C16: the content generated for each target folder has exactly one line
\* per key of the template mapping, every ${NAME} of a template value is
\* replaced by the value that folder's input file gives NAME, and no input
\* key that is not a template key appears.
C16_TemplateOnly ==
    Generated =>
        \A i \in Folders :
            /\ Len(envFiles[i].content) = Cardinality(Keys(TemplateVars))
            /\ OutputKeys(i) = Keys(TemplateVars)
            /\ Interpolated(i)
            /\ (Keys(InputVarsAt(i)) \ Keys(TemplateVars)) \cap OutputKeys(i) = {}

\* the two-section content of folder i: the input mapping under its header,
\* an empty line, the interpolated template mapping under its header
SectionsContent(i) ==
    <<CommentLine("# Input variables")>>
        \o SerializeEnv(InputVarsAt(i), ambient.locale)
        \o <<BlankLine, CommentLine("# Template variables")>>
        \o SerializeEnv(ProcessTemplate(TemplateContent, InputVarsAt(i), ambient.processEnv).vars,
                        ambient.locale)

IsAssignment(line) == DOMAIN line = {"key", "raw"}

BuiltFrom(file) ==
    LET inputVars == DotenvxParse(fileContentsMap[file], WithProcessEnv(NoEnv),
                                  ambient.processEnv)
    IN  SerializeEnv(ProcessTemplate(TemplateContent, inputVars, ambient.processEnv).vars,
                     ambient.locale)

\* the k-th GeneratedFile is the one of the member m of inputFilesToFolders
FileOf(k, m) ==
    /\ envFiles[k].path = Join(m.folder, config.outputFile)
    /\ envFiles[k].content = BuiltFrom(m.file)

\* C18 as stated: on success there is exactly one GeneratedFile per target
\* folder, in the order of the config, each at targetFolder/outputFile and
\* built from the input file mapped to that folder.
C18_ConfigOrder ==
    Generated =>
        /\ Len(envFiles) = Len(config.inputFilesToFolders)
        /\ \A k \in 1..Len(envFiles) : FileOf(k, config.inputFilesToFolders[k])

\* member a of the config is enumerated before member b: an array-index
\* name before any other name, two array-index names by their numbers, two
\* other names as the config lists them
Before(a, b) ==
    LET members == config.inputFilesToFolders
    IN  IF IsArrayIndex(members[a].file) /\ IsArrayIndex(members[b].file)
        THEN ArrayIndex[members[a].file] < ArrayIndex[members[b].file]
        ELSE IF IsArrayIndex(members[a].file) # IsArrayIndex(members[b].file)
             THEN IsArrayIndex(members[a].file)
        ELSE a < b

\* C18 amended: on success there is exactly one GeneratedFile per target
\* folder, each at targetFolder/outputFile and built from the input file
\* mapped to that folder, in the order in which JavaScript enumerates the
\* members of inputFilesToFolders: input file names that are array indices
\* first, by ascending number, then the other names in the order of the
\* config.
C18_EnumerationOrder ==
    Generated =>
        /\ Len(envFiles) = Len(config.inputFilesToFolders)
        /\ \E p \in [1..Len(envFiles) -> 1..Len(envFiles)] :
               /\ \A j, k \in 1..Len(envFiles) : j < k => Before(p[j], p[k])
               /\ \A k \in 1..Len(envFiles) : FileOf(k, config.inputFilesToFolders[p[k]])

C18_Witness ==
    /\ Generated
    /\ Len(envFiles) = 2
    /\ config.inputFilesToFolders[1].file = ".env.worktree1"
    /\ IsArrayIndex(config.inputFilesToFolders[2].file)
    /\ FolderOf(1) # FolderOf(2)
    /\ envFiles[1].path = Join(FolderOf(2), config.outputFile)

\* the keys of folder i's input file that no ${NAME} of the template names
Unreferenced(i) ==
    {k \in Keys(InputVarsAt(i)) :
        \A n \in 1..Len(TemplateContent) : k \notin NamesIn(TemplateContent[n].raw)}

\* the keys one warning names
Named(warning) == {warning[n] : n \in 1..Len(warning)}

Supplied == DOMAIN fileContentsMap

InputAbsent == \E i \in Folders : SourceFiles(config)[i] \notin Supplied

NoOutput == results = <<>> /\ envFiles = <<>> /\ fs = EmptyFs /\ ~ENABLED Next

\* C20: the call fails with "Template file not found" when the template path
\* is absent from FileContents, and with "Input file not found" when the
\* template is there and an input file path is absent; in both cases before
\* any output is produced.
C20_NotFound ==
    Started =>
        /\ config.template \notin Supplied => error.message = TemplateNotFound /\ NoOutput
        /\ (config.template \in Supplied /\ InputAbsent) =>
               error.message = InputNotFound /\ NoOutput

\* ------------------------------------------------------- claims on the run

\* a step of one of the two pure functions
PureStep == CallGenerateEnvFiles \/ CallGenerateEnvLinks

ConfigAccepted == pc \notin {"boot", "exited"} /\ config # NoConfig

\* readConfig has rejected the config file as a configuration error
ConfigRejected == pc = "exited" /\ exitCode # 0

\* C22: readConfig accepts a config only if its mapping from input files to
\* target folders has at least one entry, and rejects a config whose
\* mapping is empty; the symlink list may be empty.
C22_NonEmptyMapping ==
    /\ ConfigAccepted => Len(config.inputFilesToFolders) >= 1
    /\ (pc # "boot" /\ configFile.kind = "json" /\ configFile.value.type = "object"
            /\ HasMember(configFile.value, "inputFilesToFolders")
            /\ MemberOf(configFile.value, "inputFilesToFolders") = JObject(<<>>))
           => ConfigRejected

\* the config file is a JSON object
IsObject == configFile.kind = "json" /\ configFile.value.type = "object"

\* a required field that the config file lacks or gives the wrong type
Malformed(name) ==
    \/ ~HasMember(configFile.value, name)
    \/ MemberOf(configFile.value, name).type #
           (IF name \in {"template", "outputFile"} THEN "string"
            ELSE IF name = "inputFilesToFolders" THEN "object" ELSE "array")

\* the members of inputFilesToFolders in the config file
FolderMembers ==
    IF IsObject /\ ~Malformed("inputFilesToFolders")
    THEN MemberOf(configFile.value, "inputFilesToFolders").members ELSE <<>>

\* the items of symlinksToOuputFile in the config file
SymlinkItems ==
    IF IsObject /\ ~Malformed("symlinksToOuputFile")
    THEN MemberOf(configFile.value, "symlinksToOuputFile").items ELSE <<>>

\* a folder given as a text that does not begin with "../"
NotSibling(value) ==
    value.type = "string" /\ (Len(value.value) < 2 \/ value.value[1] # "..")

\* the config file violates the schema
SchemaViolated ==
    /\ configFile.kind = "json"
    /\ \/ ~IsObject
       \/ \E name \in {"template", "inputFilesToFolders", "outputFile",
                        "symlinksToOuputFile"} : Malformed(name)
       \/ \E i \in 1..Len(FolderMembers) :
              FolderMembers[i].value.type # "string" \/ NotSibling(FolderMembers[i].value)
       \/ \E i \in 1..Len(SymlinkItems) : SymlinkItems[i].type # "string"

\* the lines on standard error that begin with a heading
Reported(heading) == {stderr[n] : n \in {m \in 1..Len(stderr) : stderr[m][1] = heading}}

\* the violations listed after "Validation errors:"
Violations ==
    UNION {{line[2][n] : n \in 1..Len(line[2])} : line \in Reported("Validation errors:")}

\* readConfig has not gone past the config file: nothing read, the disk as
\* it was, and no step left to take
StoppedAtConfig ==
    /\ fileContentsMap = NoFiles
    /\ fs \in SourceDisks
    /\ results = <<>> /\ envFiles = <<>> /\ envLinks = <<>>
    /\ ~ENABLED NextRead

\* C23: a config file that is not JSON or violates the schema makes
\* readConfig report the file location, the contents and the violations on
\* standard error and exit the process with a non-zero status; no template
\* or input file is read afterwards and no target folder is touched.
C23_InvalidConfigExits ==
    (pc # "boot" /\ (configFile = Unparsable \/ SchemaViolated)) =>
        /\ pc = "exited" /\ exitCode # 0
        /\ Reported("Config file location:") = {<<"Config file location:", Join(Base, ConfigPath)>>}
        /\ Reported("Config file contents:") # {}
        /\ configFile = Unparsable =>
               Reported("Error: Failed to parse config file as JSON.") # {}
        /\ SchemaViolated =>
               /\ Violations # {}
               /\ IsObject =>
                      \A name \in {"template", "inputFilesToFolders", "outputFile",
                                    "symlinksToOuputFile"} :
                          Malformed(name) => \E v \in Violations : v[1] = <<name>>
        /\ StoppedAtConfig

C23_Witness ==
    /\ pc = "exited"
    /\ IsObject
    /\ Malformed("outputFile") /\ ~Malformed("template")
    /\ \E i \in 1..Len(FolderMembers) : NotSibling(FolderMembers[i].value)
    /\ DOMAIN fs.files = {Join(Base, <<TemplatePath>>), Join(Base, <<InputFileNames[1]>>)}

PlanKeys == {envLinks[n].key : n \in 1..Len(envLinks)}

GeneratedPaths == {envFiles[k].path : k \in 1..Len(envFiles)}

\* C25: whenever generateEnvFiles has succeeded, the keys of the plan of
\* generateEnvLinks are exactly the paths of the GeneratedFiles: no link
\* leads to a path that was not generated, no generated file lacks an entry.
C25_PlanMatchesFiles ==
    pc \in {"linked", "written", "done"} => PlanKeys = GeneratedPaths

C25_Witness ==
    /\ pc = "linked"
    /\ Len(envFiles) = 2
    /\ Len(envLinks) = 1
    /\ Len(envLinks[1].value) = 2

\* the generated file k is on disk: a regular file at its path, holding what
\* was generated for that path
OnDisk(k) ==
    LET fullPath == Join(Base, envFiles[k].path)
    IN  /\ fullPath \in DOMAIN fs.files
        /\ fullPath \notin DOMAIN fs.links
        /\ \E m \in 1..Len(envFiles) :
               envFiles[m].path = envFiles[k].path /\ fs.files[fullPath] = envFiles[m].content

\* C26: after a successful run every path of the generated file list is a
\* regular file holding the content generated for it: writeSymlinks has not
\* unlinked or replaced a file that writeEnvFiles wrote, whatever the config.
C26_GeneratedFilesStay ==
    pc = "done" => \A k \in 1..Len(envFiles) : OnDisk(k)

\* the second run has ended
SecondRunEnded == firstRun # NoRun /\ pc \in {"done", "failed"}

\* C27: a second run on unchanged config, template and input files
\* succeeds, and leaves the disk as the first run left it: the same files,
\* the same contents, the same symlink targets.
C27_Idempotent ==
    SecondRunEnded => pc = "done" /\ fs = firstRun[1]

\* ------------------------------------------------- claims on the step order

\* how far the run has come
Rank ==
    [p \in {"boot", "config", "start", "generated", "linked", "written", "done", "failed",
            "exited"} |->
        CASE p = "boot" -> 0
          [] p = "config" -> 1
          [] p = "start" -> 2
          [] p = "generated" -> 3
          [] p = "linked" -> 4
          [] p = "written" -> 5
          [] OTHER -> 6]

\* the step reads the config, the template or an input file
StepReads == config' # config \/ fileContentsMap' # fileContentsMap

\* the step validates and generates
StepGenerates == results' # results \/ envFiles' # envFiles \/ envLinks' # envLinks

\* the step writes a file: a new file, or new content in a file
StepWritesFile ==
    \E path \in DOMAIN fs'.files :
        path \notin DOMAIN fs.files \/ fs'.files[path] # fs.files[path]

\* the step creates a symlink
StepCreatesLink ==
    \E path \in DOMAIN fs'.links :
        path \notin DOMAIN fs.links \/ fs'.links[path] # fs.links[path]

\* every step moves the run forward; reads come before generation,
\* generation before the env-file writes, the writes before the symlinks
StepOrder ==
    /\ Rank[pc'] > Rank[pc]
    /\ StepReads => Rank[pc] < Rank["start"]
    /\ StepGenerates => Rank[pc] \in {Rank["start"], Rank["generated"]} /\ fs' = fs
    /\ StepWritesFile => pc = "linked"
    /\ StepCreatesLink => pc = "written"

\* the disk as writeSymlinks has it once it has created the first n links
DiskAfterLinks(n) == WriteSymlinkPairs(fs, Base, SubSeq(LinkPairs(envLinks), 1, n))

\* the n-th symlink of the plan, just created, leads to its generated file,
\* and that file is there
TargetThere(n) ==
    LET pair == LinkPairs(envLinks)[n]
        now == DiskAfterLinks(n)
    IN  DiskAfterLinks(n - 1).error = NoError /\ now.error = NoError
            => /\ Resolve(now.fs, Join(Base, pair[2])) = Join(Base, pair[1])
               /\ Join(Base, pair[1]) \in DOMAIN now.fs.files

\* the steps of a run come in order
C28_StepOrder == [][StepOrder]_vars

\* C28: within one run of syncWorktrees the steps are strictly ordered:
\* every read of the config, template and input files comes before
\* validation and generation, these before every env-file write, and every
\* env-file write before every symlink creation; so each symlink, at the
\* moment writeSymlinks creates it, points at a generated file that exists.
C28_OrderedSteps ==
    [][/\ StepOrder
       /\ pc = "written" => \A n \in 1..Len(LinkPairs(envLinks)) : TargetThere(n)]_vars

\* ------------------------------------------------ claims on empty files

\* C29: generateEnvFiles fails with "Template file not found" or "Input
\* file not found" only for a path that FileContents does not hold: a
\* template or input file that is there with empty content is processed as
\* an empty mapping, and is never reported as not found.
C29_OnlyAbsentNotFound ==
    Started =>
        /\ error.message = TemplateNotFound => config.template \notin Supplied
        /\ error.message = InputNotFound => error.subject \notin Supplied

\* --------------------------------- validateInputFilesConsistency on its own

BatchFileNames == InputFileNames \o <<".env.worktree4">>

\* the parsed input files: any of the keys, in any order
BatchVars == {[i \in 1..Len(ks) |-> Entry(ks[i], <<"x">>)] : ks \in KeyOrders}

\* the Maps of parsed input files, one entry per file name
Batches ==
    UNION {{[i \in 1..n |-> [file |-> BatchFileNames[i], vars |-> vs[i]]] :
               vs \in [1..n -> BatchVars]} :
              n \in 0..Min(MaxBatchFiles, Len(BatchFileNames))}

InitConsistency ==
    /\ inputFilesArg \in Batches
    /\ pc = "validate"
    /\ ambient = DefaultAmbient
    /\ config = NoConfig
    /\ fileContentsMap = NoFiles
    /\ results = <<>>
    /\ envFiles = <<>>
    /\ envLinks = <<>>
    /\ error = NoError
    /\ fs = EmptyFs
    /\ stderr = <<>>
    /\ stdout = <<>>
    /\ envArg = <<>>
    /\ serialized = <<>>
    /\ reparsed = <<>>
    /\ configFile = NotRead
    /\ exitCode = 0
    /\ firstRun = NoRun

\* validateInputFilesConsistency(inputFiles)
CallValidateInputFilesConsistency ==
    /\ pc = "validate"
    /\ LET out == ValidateInputFilesConsistency(inputFilesArg)
       IN  /\ error' = out.error
           /\ stdout' = stdout \o out.stdout
           /\ pc' = IF out.error = NoError THEN "validated" ELSE "failed"
    /\ UNCHANGED <<inputFilesArg, configFile, exitCode, firstRun, config, fileContentsMap, ambient,
                   results, envFiles, envLinks, fs, stderr, envArg, serialized, reparsed>>

NextConsistency == CallValidateInputFilesConsistency

SpecConsistency == InitConsistency /\ [][NextConsistency]_vars

\* ------------------------------------------- claims on the consistency check

\* the call has returned or thrown
Validated == pc \in {"validated", "failed"}

\* all input files have the same set of keys
IdenticalKeySets ==
    \A i, k \in 1..Len(inputFilesArg) : Keys(inputFilesArg[i].vars) = Keys(inputFilesArg[k].vars)

\* the orders the same input files can come in
Orders(n) == {p \in [1..n -> 1..n] : \A i, k \in 1..n : i # k => p[i] # p[k]}

Permuted(q, p) == [i \in 1..Len(q) |-> q[p[i]]]

\* C30: validateInputFilesConsistency throws "inconsistent keys" if and
\* only if not all input files have identical key sets; which input file
\* comes first makes no difference: in every order of the same input files
\* the batch is accepted, or in every order it is rejected.
C30_OrderIndependent ==
    Validated =>
        /\ error # NoError <=> ~IdenticalKeySets
        /\ error # NoError => error.message = InconsistentKeys
        /\ \A p \in Orders(Len(inputFilesArg)) :
               ValidateInputFilesConsistency(Permuted(inputFilesArg, p)).error = NoError
                   <=> error = NoError

\* rejected for the third file, which has a key more than the first two
C30_Witness ==
    /\ pc = "failed"
    /\ Len(inputFilesArg) = 3
    /\ Keys(inputFilesArg[1].vars) = Keys(inputFilesArg[2].vars)
    /\ ExtraKeys(inputFilesArg[1].vars, inputFilesArg[3].vars) # <<>>
    /\ MissingKeys(inputFilesArg[1].vars, inputFilesArg[3].vars) = <<>>
    /\ error.subject = inputFilesArg[3].file
====
